---- MODULE Spec2Model ----
(***************************************************************************)
(* Node execution engine of AetherMind: the agent, remote-tool (MCP) and   *)
(* HTTP step executors of src/lib/workflow/executors, and the caller that  *)
(* threads one WorkflowState through a sequence of steps.                  *)
(***************************************************************************)
EXTENDS Integers, Sequences, FiniteSets, TLC

VARIABLES
    env,          \* process.env: USE_FALLBACK_DATA, DEMO_MODE, MOCK_AGENT_RESPONSE
    variables,    \* state.variables: input, lastOutput
    chatHistory,  \* state.chatHistory
    pc,           \* caller position: "idle", "returned", "thrown"
    node,         \* the WorkflowNode of the current step
    apiKeys,      \* the provider keys handed to the current step
    result,       \* object the executor returned, or the error it threw
    calls,        \* outbound calls issued by the current step, with their outcomes
    pre,          \* state.variables and state.chatHistory when the step began
    steps,        \* number of steps started in this run
    loop,         \* the Provider B tool loop of one agent step, call by call
    fx            \* one application of a helper of the executors: arguments and value

vars == <<env, variables, chatHistory, pc, node, apiKeys, result, calls, pre, steps, loop, fx>>

------------------------------------------------------------------------------
(* Bounds *)

MaxSteps == 2
MaxHistory == 4
\* how many milliseconds the clock can advance while one batch of tool
\* requests is being sent
MaxClockAdvance == 1

------------------------------------------------------------------------------
(* JavaScript values *)

Undefined == [t |-> "undefined"]
Null == [t |-> "null"]
Str(s) == [t |-> "string", s |-> s]
Num(n) == [t |-> "number", n |-> n]
Arr(a) == [t |-> "array", a |-> a]
Obj(o) == [t |-> "object", o |-> o]

\* the marker an operator yields where the JavaScript expression throws
TypeError == [t |-> "throw"]

Truthy(v) ==
    CASE v.t = "undefined" -> FALSE
      [] v.t = "null" -> FALSE
      [] v.t = "throw" -> FALSE
      [] v.t = "string" -> v.s # ""
      [] v.t = "number" -> v.n # 0
      [] OTHER -> TRUE

\* v[k]: property read; throws on null and undefined
Get(v, k) ==
    CASE v.t \in {"undefined", "null", "throw"} -> TypeError
      [] v.t = "object" -> IF k \in DOMAIN v.o THEN v.o[k] ELSE Undefined
      [] OTHER -> Undefined

\* v?.[k]: optional property read
GetOpt(v, k) ==
    IF v.t \in {"undefined", "null"} THEN Undefined ELSE Get(v, k)

\* v[i] on an array, i counted from 0
At(v, i) ==
    CASE v.t \in {"undefined", "null", "throw"} -> TypeError
      [] v.t = "array" -> IF i + 1 \in DOMAIN v.a THEN v.a[i + 1] ELSE Undefined
      [] OTHER -> Undefined

AtOpt(v, i) ==
    IF v.t \in {"undefined", "null"} THEN Undefined ELSE At(v, i)

\* a || b, where evaluating a may throw
OrElse(a, b) == IF a.t = "throw" THEN a ELSE IF Truthy(a) THEN a ELSE b

\* a ?? b
Coalesce(a, b) == IF a.t \in {"undefined", "null"} THEN b ELSE a

------------------------------------------------------------------------------
(* Strings: the texts of the model and what the code asks of them *)

UrlStrings == {"https://site.test/page"}

StartsWithHttp(s) == s \in UrlStrings

\* the keywords of generateFallbackSearchResults that a lower-cased text holds
KeywordsOf(s) ==
    CASE s = "NVDA stock price" -> {"stock"}
      [] s = "amazon mouse" -> {"amazon"}
      [] s = "ai trends" -> {"trends", "ai"}
      [] OTHER -> {}

------------------------------------------------------------------------------
(* JSON.parse and JSON.stringify over the texts of the model *)

MockConfigById == Obj([nodeA |-> Str("fixed output")])
MockConfigByName == Obj([Summarizer |-> Str("by name"), default |-> Str("by default")])
MockConfigNullId == Obj([nodeA |-> Null, default |-> Str("by default")])
MockConfigOther == Obj([other |-> Str("x")])

JsonTable ==
    { <<"{\"nodeA\":\"fixed output\"}", MockConfigById>>,
      <<"{\"Summarizer\":\"by name\",\"default\":\"by default\"}", MockConfigByName>>,
      <<"{\"nodeA\":null,\"default\":\"by default\"}", MockConfigNullId>>,
      <<"{\"other\":\"x\"}", MockConfigOther>>,
      <<"{\"score\":1}", Obj([score |-> Num(1)])>>,
      <<"null", Null>>,
      <<"1", Num(1)>>,
      <<"{\"error\":\"MCP server not found for tool\"}",
        Obj([error |-> Str("MCP server not found for tool")])>>,
      <<"{\"error\":\"Unexpected token\"}", Obj([error |-> Str("Unexpected token")])>>,
      <<"{\"error\":\"fetch failed\"}", Obj([error |-> Str("fetch failed")])>>,
      <<"{\"error\":\"upstream 500\"}", Obj([error |-> Str("upstream 500")])>>,
      <<"{\"message\":\"Unauthorized\"}", Obj([message |-> Str("Unauthorized")])>> }

IsJson(text) == \E p \in JsonTable : p[1] = text

\* JSON.parse(text); TypeError stands for the SyntaxError it throws
JsonParse(text) ==
    IF IsJson(text) THEN (CHOOSE p \in JsonTable : p[1] = text)[2] ELSE TypeError

JsonStringify(v) ==
    IF \E p \in JsonTable : p[2] = v
    THEN (CHOOSE p \in JsonTable : p[2] = v)[1]
    ELSE "<json>"

------------------------------------------------------------------------------
(* Error messages: a message is the sequence of its fragments, and          *)
(* String.prototype.includes is containment of a run of fragments           *)

Includes(msg, pat) ==
    \E i \in 0..(Len(msg) - Len(pat)) :
        \A j \in 1..Len(pat) : msg[i + j] = pat[j]

------------------------------------------------------------------------------
(* Degraded-mode policy *)

\* mutant: DEMO_MODE alone decides
UseFallbackDemoModeOnly(e) == e.DEMO_MODE # "false"

UseFallback(e) == e.USE_FALLBACK_DATA = "true" \/ e.DEMO_MODE # "false"

------------------------------------------------------------------------------
(* Variable substitution (lib/workflow/variable-substitution): a template   *)
(* is a literal text or a single {{name}} placeholder                       *)

NoTemplate == [kind |-> "none"]
Literal(s) == [kind |-> "literal", s |-> s]
Placeholder(name) == [kind |-> "var", name |-> name]

ToText(v) == IF v.t = "string" THEN v.s ELSE JsonStringify(v)

substituteVariables(tpl, stateVariables) ==
    CASE tpl.kind = "literal" -> tpl.s
      [] tpl.kind = "var" -> ToText(stateVariables[tpl.name])
      [] OTHER -> ""

------------------------------------------------------------------------------
(* Field extraction, mcp.ts *)

\* a path is the sequence of its dot-separated parts; index >= 0 is a part
\* of the form name[index], index = -1 a plain key
Part(name, index) == [name |-> name, index |-> index]

RECURSIVE getNestedValue(_, _)
getNestedValue(current, parts) ==
    IF parts = <<>> THEN current
    ELSE LET part == Head(parts)
             next == IF part.index >= 0
                     THEN AtOpt(Get(current, part.name), part.index)
                     ELSE GetOpt(current, part.name)
         IN  IF next.t \in {"throw", "undefined"} THEN next
             ELSE getNestedValue(next, Tail(parts))

\* data[0]
First(data) == IF data.t = "array" THEN At(data, 0) ELSE Get(data, "0")

\* mutant: the result objects themselves, not their url fields
UrlsOfWholeResults(list) == Arr(list)

\* data.results.map(r => r.url)
UrlsOf(list) ==
    IF \E i \in DOMAIN list : Get(list[i], "url").t = "throw"
    THEN TypeError
    ELSE Arr([i \in DOMAIN list |-> Get(list[i], "url")])

extractField(data, field, customPath) ==
    IF field = "full" THEN data
    ELSE IF field = "custom" /\ customPath # <<>> THEN getNestedValue(data, customPath)
    ELSE IF data.t \in {"undefined", "null", "throw"} THEN TypeError
    ELSE CASE field = "markdown" -> OrElse(Get(data, "markdown"), data)
           [] field = "html" -> OrElse(Get(data, "html"), data)
           [] field = "metadata" -> OrElse(Get(data, "metadata"), Obj(<<>>))
           [] field = "results" -> OrElse(Get(data, "results"), data)
           [] field = "urls" ->
                IF Get(data, "results").t = "array" THEN UrlsOf(Get(data, "results").a)
                ELSE IF Get(data, "urls").t = "array" THEN Get(data, "urls")
                ELSE IF Get(data, "links").t = "array" THEN Get(data, "links")
                ELSE data
           [] field = "first" ->
                OrElse(AtOpt(Get(data, "results"), 0), OrElse(First(data), data))
           [] field = "json" -> OrElse(Get(data, "json"), OrElse(Get(data, "data"), data))
           [] OTHER -> OrElse(Get(data, field), data)

------------------------------------------------------------------------------
(* Errors: what a throw statement or an external call throws *)

\* new Error(message)
Err(message) == [isError |-> TRUE, message |-> message]
\* a thrown value that is not an Error
NonError == [isError |-> FALSE, message |-> <<>>]

\* error instanceof Error ? error.message : 'Unknown error'
MessageOf(error) == IF error.isError THEN error.message ELSE <<"Unknown error">>

\* the TypeError of a property read on null or undefined
PropertyReadError == Err(<<"Cannot read properties of undefined">>)

------------------------------------------------------------------------------
(* Tool servers and the resolver (lib/mcp/resolver) *)

Server(name, url) == [name |-> name, url |-> url]

FirecrawlServer == Server("Firecrawl", "https://mcp.firecrawl.test/{FIRECRAWL_API_KEY}")
DeepWikiServer == Server("DeepWiki", "https://mcp.deepwiki.test/sse")
CustomServer == Server("Custom", "https://mcp.custom.test")

\* serverConfig.name.toLowerCase().includes(word)
NameIncludes(server, word) ==
    \/ server.name = "Firecrawl" /\ word = "firecrawl"
    \/ server.name = "DeepWiki" /\ word = "deepwiki"

Absent == [name |-> "", url |-> ""]

\* resolveMCPServer(id): the registry entry, or nothing
resolveMCPServer(id) ==
    CASE id = "firecrawl" -> FirecrawlServer
      [] id = "deepwiki" -> DeepWikiServer
      [] OTHER -> Absent

------------------------------------------------------------------------------
(* Remote-tool executor, mcp.ts *)

\* executeGenericMCPServer: [kind |-> "ok", tool, data] or [kind |-> "throw", error]
executeGenericMCPServer(serverConfig, stateVariables) ==
    LET input == OrElse(stateVariables.input, stateVariables.lastOutput)
        inputText == ToText(input)
        words == KeywordsOf(inputText)
        tool == IF words \cap {"wiki structure", "topics"} # {} THEN "read_wiki_structure"
                ELSE IF words \cap {"wiki content", "documentation"} # {}
                     THEN "read_wiki_contents"
                     ELSE "ask_question"
    IN  IF NameIncludes(serverConfig, "deepwiki") \/ NameIncludes(serverConfig, "devin")
        THEN [kind |-> "ok", tool |-> tool,
              data |-> Obj([server |-> Str("DeepWiki"), tool |-> Str(tool),
                            input |-> Str(inputText)])]
        ELSE [kind |-> "throw",
              error |-> Err(<<"MCP server", serverConfig.name,
                              "execution not yet implemented. Server URL:",
                              serverConfig.url>>)]

getUrl(nodeData, stateVariables) ==
    LET substituted == substituteVariables(nodeData.url, stateVariables)
        lastOutput == stateVariables.lastOutput
        input == stateVariables.input
    IN  IF nodeData.url.kind # "none" /\ StartsWithHttp(substituted) THEN substituted
        ELSE IF lastOutput.t = "string" /\ StartsWithHttp(lastOutput.s) THEN lastOutput.s
        ELSE IF GetOpt(lastOutput, "url").t = "string" /\ GetOpt(lastOutput, "url").s # ""
             THEN GetOpt(lastOutput, "url").s
        ELSE IF input.t = "string" /\ StartsWithHttp(input.s) THEN input.s
        ELSE "https://example.com"

getSearchQuery(nodeData, stateVariables) ==
    LET substituted == substituteVariables(nodeData.searchQuery, stateVariables)
        lastOutput == stateVariables.lastOutput
        input == stateVariables.input
    IN  IF nodeData.searchQuery.kind # "none" /\ substituted # "" THEN substituted
        ELSE IF lastOutput.t = "string" /\ ~StartsWithHttp(lastOutput.s) THEN lastOutput.s
        ELSE IF input.t = "string" /\ ~StartsWithHttp(input.s) THEN input.s
        ELSE "latest tech news"

WebEntry(url, title, position) ==
    Obj([url |-> Str(url), title |-> Str(title), position |-> Num(position)])

generateFallbackSearchResults(query) ==
    LET words == KeywordsOf(query)
        isStock == words \cap {"stock", "yahoo finance", "ticker"} # {}
        isAmazon == words \cap {"amazon", "product"} # {}
    IN  IF isStock
        THEN Obj([web |-> Arr(<<
                 WebEntry("https://finance.yahoo.com/quote/NVDA", "NVIDIA Corporation (NVDA)", 1),
                 WebEntry("https://finance.yahoo.com/news/nvidia-stock-analysis", "NVIDIA Stock Analysis", 2),
                 WebEntry("https://finance.yahoo.com/quote/NVDA/key-statistics", "NVIDIA Key Statistics", 3)>>)])
        ELSE IF isAmazon
        THEN Obj([web |-> Arr(<<
                 WebEntry("https://www.amazon.com/dp/B08XYZ1234", "Logitech MX Master 3S", 1),
                 WebEntry("https://www.amazon.com/dp/B09ABC5678", "Razer DeathAdder V3 Pro", 2),
                 WebEntry("https://www.amazon.com/dp/B07DEF4567", "Apple Magic Mouse", 3)>>)])
        ELSE Obj([web |-> Arr(<<
                 WebEntry("https://techcrunch.com/2025/01/ai-trends-2025", "Top AI Trends", 1),
                 WebEntry("https://www.mckinsey.com/ai-trends-2025", "AI Trends 2025", 2),
                 WebEntry("https://venturebeat.com/ai/ai-trends-2025", "The Future of AI", 3),
                 WebEntry("https://www.gartner.com/ai-trends-2025", "Gartner AI Trends Report", 4),
                 WebEntry("https://www.forbes.com/ai-trends-2025", "AI in 2025", 5)>>)])

FirecrawlActions == {"scrape", "search", "map", "crawl"}

\* state.variables.lastOutput = outputData
WriteLastOutput(stateVariables, outputData) ==
    [stateVariables EXCEPT !.lastOutput = outputData]

\* mutant: the policy flag is not consulted
FallbackAppliesIgnoringPolicy(e, action) == action = "search"

\* mutant: the fallback is not restricted to the search action
FallbackAppliesToEveryAction(e, action) == UseFallback(e)

\* the condition under which the catch block substitutes synthetic results
FallbackApplies(e, action) == UseFallback(e) /\ action = "search"

\* The branch of a server whose name holds 'firecrawl'. backend is what the
\* Firecrawl SDK call does: [kind |-> "ok", data] or [kind |-> "throw", error].
FirecrawlBranch(nodeData, stateVariables, e, keys, backend) ==
    LET action == IF nodeData.mcpAction = "unset" THEN "scrape" ELSE nodeData.mcpAction
        known == action \in FirecrawlActions
        arg == IF action = "search" THEN getSearchQuery(nodeData, stateVariables)
               ELSE getUrl(nodeData, stateVariables)
        issued == IF known
                  THEN <<[target |-> "firecrawl", action |-> action, arg |-> arg,
                          threw |-> backend.kind = "throw",
                          failure |-> IF backend.kind = "throw"
                                      THEN MessageOf(backend.error) ELSE <<>>]>>
                  ELSE <<>>
        project(data) == IF nodeData.outputField \notin {"unset", "full"}
                         THEN extractField(data, nodeData.outputField,
                                           nodeData.customOutputPath)
                         ELSE data
        liveOk == known /\ backend.kind = "ok" /\ project(backend.data).t # "throw"
        caught == IF ~known THEN Err(<<"Unknown Firecrawl action:", action>>)
                  ELSE IF backend.kind = "throw" THEN backend.error
                  ELSE PropertyReadError
        liveVars == WriteLastOutput(stateVariables, project(backend.data))
        query == getSearchQuery(nodeData, stateVariables)
        fallbackResults == generateFallbackSearchResults(query)
        fallbackVars == WriteLastOutput(stateVariables, project(fallbackResults))
    IN  IF "firecrawl" \notin keys
        THEN [pc |-> "thrown",
              result |-> [error |-> <<"FIRECRAWL_API_KEY not configured">>],
              variables |-> stateVariables, calls |-> <<>>]
        ELSE IF liveOk
        THEN [pc |-> "returned",
              result |-> [results |-> <<[server |-> "Firecrawl", tool |-> action,
                                         success |-> TRUE, data |-> backend.data]>>,
                          extractedField |-> nodeData.outputField,
                          output |-> project(backend.data),
                          mcpServers |-> <<"Firecrawl">>,
                          toolCalls |-> <<[name |-> <<"firecrawl_", action>>,
                                           arguments |-> [action |-> action,
                                                          url |-> getUrl(nodeData, liveVars),
                                                          query |-> getSearchQuery(nodeData, liveVars)],
                                           output |-> backend.data]>>],
              variables |-> liveVars, calls |-> issued]
        ELSE IF FallbackApplies(e, action)
        THEN [pc |-> "returned",
              result |-> [results |-> <<[server |-> "Firecrawl", tool |-> action,
                                         success |-> FALSE,
                                         error |-> <<"Using fallback data">>,
                                         data |-> fallbackResults]>>,
                          extractedField |-> nodeData.outputField,
                          output |-> project(fallbackResults),
                          mcpServers |-> <<"Firecrawl">>,
                          toolCalls |-> <<[name |-> <<"firecrawl_", action>>,
                                           arguments |-> [action |-> action, query |-> query],
                                           output |-> fallbackResults]>>,
                          _fallback |-> TRUE],
              variables |-> fallbackVars, calls |-> issued]
        ELSE [pc |-> "thrown",
              result |-> [error |-> <<"Firecrawl", action, "failed:">> \o MessageOf(caught)],
              variables |-> stateVariables, calls |-> issued]

\* The loop over mcpServers: a Firecrawl server ends the step, any other
\* server adds its entry to results and the loop goes on.
RECURSIVE RunServers(_, _, _, _, _, _, _, _)
RunServers(servers, all, nodeData, stateVariables, e, keys, backend, results) ==
    IF servers = <<>>
    THEN [pc |-> "returned",
          result |-> [results |-> results,
                      mcpServers |-> [i \in DOMAIN all |-> all[i].name]],
          variables |-> stateVariables, calls |-> <<>>]
    ELSE LET serverConfig == Head(servers)
             generic == executeGenericMCPServer(serverConfig, stateVariables)
         IN  IF NameIncludes(serverConfig, "firecrawl")
             THEN FirecrawlBranch(nodeData, stateVariables, e, keys, backend)
             ELSE IF generic.kind = "ok"
             THEN RunServers(Tail(servers), all, nodeData,
                             WriteLastOutput(stateVariables, generic.data), e, keys, backend,
                             Append(results, [server |-> serverConfig.name,
                                              tool |-> generic.tool,
                                              success |-> TRUE, data |-> generic.data]))
             ELSE RunServers(Tail(servers), all, nodeData, stateVariables, e, keys, backend,
                             Append(results, [server |-> serverConfig.name,
                                              error |-> MessageOf(generic.error),
                                              success |-> FALSE]))

\* mutant: a node with an identifier never falls back on its inline list
TargetServersIdentifierOnly(nodeData) ==
    IF nodeData.mcpServerId = "none" THEN nodeData.mcpServers
    ELSE IF resolveMCPServer(nodeData.mcpServerId) # Absent
         THEN <<resolveMCPServer(nodeData.mcpServerId)>>
         ELSE <<>>

\* the list of target servers: the resolved identifier, else the inline list
TargetServers(nodeData) ==
    IF nodeData.mcpServerId # "none" /\ resolveMCPServer(nodeData.mcpServerId) # Absent
    THEN <<resolveMCPServer(nodeData.mcpServerId)>>
    ELSE nodeData.mcpServers

\* mutant: the empty list falls through the loop
NoServerResultEmptyEnvelope == [results |-> <<>>, mcpServers |-> <<>>]

NoServerResult == [error |-> <<"No MCP servers configured or could not resolve server">>]

executeMCPNode(nodeData, stateVariables, e, keys, backend) ==
    LET mcpServers == TargetServers(nodeData)
    IN  IF mcpServers = <<>>
        THEN [pc |-> "returned", result |-> NoServerResult,
              variables |-> stateVariables, calls |-> <<>>]
        ELSE RunServers(mcpServers, mcpServers, nodeData, stateVariables, e, keys,
                        backend, <<>>)

------------------------------------------------------------------------------
(* The caller: applies the returned update instructions between steps *)

MergeVariables(stateVariables, res) ==
    IF "__variableUpdates" \in DOMAIN res
    THEN [stateVariables EXCEPT !.lastOutput = res.__variableUpdates.lastOutput]
    ELSE stateVariables

ApplyChatHistoryUpdates(history, res) ==
    IF "__chatHistoryUpdates" \in DOMAIN res
    THEN history \o res.__chatHistoryUpdates
    ELSE history

------------------------------------------------------------------------------
(* Agent executor, agent.ts: texts it reads and writes *)

\* the text of a template as written in the node
RawText(tpl) ==
    CASE tpl.kind = "literal" -> tpl.s
      [] tpl.kind = "var" /\ tpl.name = "lastOutput" -> "{{lastOutput}}"
      [] tpl.kind = "var" /\ tpl.name = "input" -> "{{input}}"
      [] OTHER -> ""

Message(role, content) == [role |-> role, content |-> content]

\* the words of the fallback selection that a lower-cased node name holds
NameWords(name) ==
    CASE name = "Summarizer" -> {"summarize"}
      [] name = "Stock Analysis" -> {"analysis"}
      [] name = "Write Report" -> {"write", "report"}
      [] name = "Recommend" -> {"recommend"}
      [] name = "Extract Product" -> {"extract"}
      [] OTHER -> {}

\* the canned response of the catch block, one text per branch
FallbackResponse(nodeId, nodeData, stateVariables) ==
    LET nodeName == IF nodeData.nodeName # "" THEN nodeData.nodeName ELSE nodeId
        words == NameWords(nodeName)
        input == OrElse(stateVariables.input, Obj(<<>>))
        hint(key) == IF input.t = "object"
                     THEN OrElse(Get(input, key), GetOpt(Get(input, "input"), key))
                     ELSE Null
    IN  IF "gemini" \in words \/ ("analysis" \in words /\ "recommend" \notin words)
        THEN IF Truthy(hint("ticker")) THEN "## Analysis of Search Results: ticker"
             ELSE IF Truthy(hint("product")) THEN "## Analysis of Amazon Search Results: product"
             ELSE IF Truthy(hint("research_topic")) THEN "## Analysis of Search Results: topic"
             ELSE "## Analysis Results"
        ELSE IF words \cap {"summary", "summarize"} # {}
        THEN "**Executive Summary: Analysis Results**"
        ELSE IF "report" \in words THEN "# Stock Analysis Report"
        ELSE IF words \cap {"recommend", "analyze-recommend"} # {} THEN "## Product Overview"
        ELSE IF words \cap {"extract", "extract-product"} # {}
        THEN "**Product Information Extracted:**"
        ELSE "Analysis completed successfully."

\* the model identifier is the sequence of its '/'-separated segments
DefaultModel == <<"anthropic", "claude-sonnet-4-5-20250929">>

ProviderOf(model) ==
    LET modelString == IF model = <<>> THEN DefaultModel ELSE model
    IN  IF Len(modelString) > 1 THEN Head(modelString) ELSE "openai"

\* mutant: the default entry is looked up first
MockLookupDefaultFirst(mockConfig, nodeId, nodeName) ==
    Coalesce(Get(mockConfig, "default"),
        Coalesce(Get(mockConfig, nodeId),
            Coalesce(IF nodeName # "" THEN Get(mockConfig, nodeName) ELSE Undefined,
                mockConfig)))

\* mockConfig[nodeKey] ?? (nodeName ? mockConfig[nodeName] : undefined)
\*   ?? mockConfig.default ?? mockOutput
MockLookup(mockConfig, nodeId, nodeName) ==
    Coalesce(Get(mockConfig, nodeId),
        Coalesce(IF nodeName # "" THEN Get(mockConfig, nodeName) ELSE Undefined,
            Coalesce(Get(mockConfig, "default"), mockConfig)))

\* the mock output of the node, Undefined where there is none
MockOutput(mockText, nodeId, nodeName) ==
    LET mockConfig == IF IsJson(mockText) THEN JsonParse(mockText) ELSE Str(mockText)
    IN  IF Truthy(mockConfig) /\ mockConfig.t \in {"object", "array"}
        THEN MockLookup(mockConfig, nodeId, nodeName)
        ELSE mockConfig

MockActive(e) == e.MOCK_AGENT_RESPONSE \notin {"unset", ""}

\* mutant: the response text, not the shaped value, is proposed as lastOutput
AgentResultTextAsLastOutput(value, toolCalls, includeChatHistory, userContent, assistantContent) ==
    [__agentValue |-> value,
     __agentToolCalls |-> toolCalls,
     __chatHistoryUpdates |->
        IF includeChatHistory
        THEN <<Message("user", userContent), Message("assistant", assistantContent)>>
        ELSE <<>>,
     __variableUpdates |-> [lastOutput |-> Str(assistantContent)]]

\* mutant: the two turns are proposed whether or not the step opted in
AgentResultAlwaysProposesTurns(value, toolCalls, includeChatHistory, userContent, assistantContent) ==
    [__agentValue |-> value,
     __agentToolCalls |-> toolCalls,
     __chatHistoryUpdates |->
        <<Message("user", userContent), Message("assistant", assistantContent)>>,
     __variableUpdates |-> [lastOutput |-> value]]

\* the object every return statement of executeAgentNode builds
AgentResult(value, toolCalls, includeChatHistory, userContent, assistantContent) ==
    [__agentValue |-> value,
     __agentToolCalls |-> toolCalls,
     __chatHistoryUpdates |->
        IF includeChatHistory
        THEN <<Message("user", userContent), Message("assistant", assistantContent)>>
        ELSE <<>>,
     __variableUpdates |-> [lastOutput |-> value]]

\* mutant: the executor applies its own updates to the state
AgentStateEffectInPlace(st, res) ==
    [variables |-> MergeVariables(st.variables, res),
     chatHistory |-> ApplyChatHistoryUpdates(st.chatHistory, res)]

\* what the executor leaves in state.variables and state.chatHistory, res
\* being the result it is about to return
AgentStateEffect(st, res) == st

------------------------------------------------------------------------------
(* Agent executor: provider dispatch *)

\* what a provider call does: a response, or an exception
Reply(text, tool_calls, results) ==
    [kind |-> "ok", text |-> text, tool_calls |-> tool_calls, results |-> results]
Throws(error) == [kind |-> "throw", error |-> error]

ProviderCall(provider, api, messages, outcome) ==
    [target |-> "provider", provider |-> provider, api |-> api,
     messages |-> messages, threw |-> outcome.kind = "throw", response |-> outcome]

\* mcpTools: the resolved identifiers when the node carries any, else the
\* inline list (resolveMCPServers drops the identifiers it cannot resolve)
ResolvedTools(nodeData) ==
    IF nodeData.mcpServerIds # <<>>
    THEN SelectSeq([i \in DOMAIN nodeData.mcpServerIds |->
                        resolveMCPServer(nodeData.mcpServerIds[i])],
                   LAMBDA srv : srv # Absent)
    ELSE nodeData.mcpTools

\* one tool call of the Provider B loop: the tool-role message it yields and
\* the POST it issues. post is what the tool server does:
\* [kind |-> "ok", status, body], [kind |-> "network"] or [kind |-> "notjson"]
ToolContent(call, mcpTools, post) ==
    IF ~\E i \in DOMAIN mcpTools : mcpTools[i].name = call.name
    THEN "{\"error\":\"MCP server not found for tool\"}"
    ELSE IF ~IsJson(call.arguments) THEN "{\"error\":\"Unexpected token\"}"
    ELSE IF post.kind = "network" THEN "{\"error\":\"fetch failed\"}"
    ELSE IF post.kind = "notjson" THEN "{\"error\":\"Unexpected token\"}"
    ELSE JsonStringify(OrElse(Get(post.body, "result"), post.body))

ToolPosted(call, mcpTools) ==
    /\ \E i \in DOMAIN mcpTools : mcpTools[i].name = call.name
    /\ IsJson(call.arguments)

ToolMessage(call, mcpTools, post) ==
    [tool_call_id |-> call.id, role |-> "tool", content |-> ToolContent(call, mcpTools, post)]

ToolPost(call, mcpTools, post) ==
    [target |-> "tool", name |-> call.name, id |-> call.id,
     threw |-> post.kind # "ok"]

\* Provider A, with tool servers: the record of invocation block idx, paired
\* by position with result block idx
PairedToolCall(toolUses, toolResults, idx) ==
    LET item == toolUses[idx]
        base == [type |-> "mcp_tool_use", name |-> item.name, server_name |-> "MCP",
                 arguments |-> item.arguments, tool_use_id |-> item.id]
        content == toolResults[idx].content
    IN  IF idx \in DOMAIN toolResults
        THEN base @@
             [output |-> IF toolResults[idx].is_error THEN Obj([error |-> content])
                         ELSE IF content.t = "array"
                              THEN OrElse(GetOpt(At(content, 0), "text"), content)
                              ELSE content]
        ELSE base

\* The provider branches. world.first and world.second are what the first and
\* second provider call do, world.posts what each tool server does.
\* Yields [kind |-> "ok", responseText, toolCalls, calls] or
\* [kind |-> "throw", error, calls].
Dispatch(provider, keys, mcpTools, messages, world) ==
    LET hasMcpTools == mcpTools # <<>>
        first == world.first
        one(api, sent) == <<ProviderCall(provider, api, sent, first)>>
        plain(api, sent) ==
            IF first.kind = "throw"
            THEN [kind |-> "throw", error |-> first.error, calls |-> one(api, sent)]
            ELSE [kind |-> "ok", responseText |-> first.text, toolCalls |-> <<>>,
                  calls |-> one(api, sent)]
        requested == first.tool_calls
        posts == world.posts
        toolResults == [i \in DOMAIN requested |->
                            ToolMessage(requested[i], mcpTools, posts[i])]
        posted == SelectSeq([i \in DOMAIN requested |->
                                 [call |-> ToolPost(requested[i], mcpTools, posts[i]),
                                  sent |-> ToolPosted(requested[i], mcpTools)]],
                            LAMBDA x : x.sent)
        toolPosts == [i \in DOMAIN posted |-> posted[i].call]
        transcript == messages \o
                      <<[role |-> "assistant", content |-> first.text,
                         tool_calls |-> requested]>> \o toolResults
        twoCalls == one("chat.completions", messages) \o toolPosts \o
                    <<ProviderCall(provider, "chat.completions", transcript, world.second)>>
    IN  CASE provider = "anthropic" /\ "anthropic" \in keys ->
               IF ~hasMcpTools THEN plain("messages", messages)
               ELSE IF first.kind = "throw" THEN plain("beta.messages", messages)
               ELSE [kind |-> "ok", responseText |-> first.text,
                     toolCalls |-> [i \in DOMAIN requested |->
                                        PairedToolCall(requested, first.results, i)],
                     calls |-> one("beta.messages", messages)]
          [] provider = "openai" /\ "openai" \in keys ->
               IF ~hasMcpTools THEN plain("langchain", messages)
               ELSE IF first.kind = "throw" \/ requested = <<>>
               THEN plain("chat.completions", messages)
               ELSE IF world.second.kind = "throw"
               THEN [kind |-> "throw", error |-> world.second.error, calls |-> twoCalls]
               ELSE IF \E i \in DOMAIN requested : ~IsJson(requested[i].arguments)
               THEN [kind |-> "throw", error |-> Err(<<"Unexpected token">>),
                     calls |-> twoCalls]
               ELSE [kind |-> "ok", responseText |-> world.second.text,
                     toolCalls |-> [i \in DOMAIN requested |->
                                        [id |-> requested[i].id,
                                         name |-> requested[i].name,
                                         arguments |-> JsonParse(requested[i].arguments),
                                         output |-> JsonParse(toolResults[i].content)]],
                     calls |-> twoCalls]
          [] provider = "groq" /\ "groq" \in keys ->
               IF ~hasMcpTools THEN plain("langchain", messages)
               ELSE IF first.kind = "throw"
               THEN plain("responses", <<messages[Len(messages)]>>)
               ELSE [kind |-> "ok", responseText |-> first.text,
                     toolCalls |-> [i \in DOMAIN requested |->
                                        [id |-> requested[i].id,
                                         name |-> requested[i].name,
                                         arguments |-> requested[i].arguments,
                                         output |-> Null]],
                     calls |-> one("responses", <<messages[Len(messages)]>>)]
          [] provider = "gemini" /\ "gemini" \in keys ->
               plain("generateContent",
                     [i \in DOMAIN messages |->
                          [prefix |-> IF messages[i].role = "assistant" THEN "Assistant: " ELSE "",
                           content |-> messages[i].content]])
          [] provider = "aimlapi" /\ "aimlapi" \in keys -> plain("chat.completions", messages)
          [] OTHER ->
               [kind |-> "throw",
                error |-> Err(<<"No", "API key", "available", "for provider:", provider>>),
                calls |-> <<>>]

------------------------------------------------------------------------------
(* Agent executor: executeAgentNode *)

\* the error the catch block throws when fallback is off
ClassifyError(errorMessage) ==
    IF Includes(errorMessage, <<"API key">>) \/ Includes(errorMessage, <<"api_key">>)
    THEN <<"Missing", "API key", ". Please add your LLM provider key in Settings.">>
    ELSE IF Includes(errorMessage, <<"rate limit">>) \/ Includes(errorMessage, <<"429">>)
    THEN <<"Rate limited. Please wait a moment and try again.">>
    ELSE IF Includes(errorMessage, <<"No", "API key", "available">>)
    THEN <<"No", "API key", "configured. Please add a Gemini, AI/ML API, Anthropic, OpenAI, or Groq",
           "API key", "in your .env.local file.">>
    ELSE <<"Agent execution failed:">> \o errorMessage

\* mutant: the catch block rethrows whatever the policy says
AgentCatchAlwaysRethrows(n, stateVariables, e, error, issued) ==
    [pc |-> "thrown", result |-> [error |-> ClassifyError(MessageOf(error))],
     calls |-> issued]

\* the catch block
AgentCatch(n, stateVariables, e, error, issued) ==
    LET fallbackResponse == FallbackResponse(n.id, n.data, stateVariables)
    IN  IF UseFallback(e)
        THEN [pc |-> "returned",
              result |-> AgentResult(Str(fallbackResponse), <<>>, n.data.includeChatHistory,
                                     RawText(n.data.instructions), fallbackResponse)
                         @@ [_fallback |-> TRUE],
              calls |-> issued]
        ELSE [pc |-> "thrown",
              result |-> [error |-> ClassifyError(MessageOf(error))],
              calls |-> issued]

\* mutant: a JSON step's response is parsed without the local recovery
ShapeOutputUnguarded(outputFormat, responseText) ==
    IF outputFormat = "JSON" THEN JsonParse(responseText) ELSE Str(responseText)

\* output shaping: the parsed response for a JSON step, else the raw text
ShapeOutput(outputFormat, responseText) ==
    IF outputFormat = "JSON" /\ IsJson(responseText)
    THEN JsonParse(responseText)
    ELSE Str(responseText)

\* keys is the apiKeys argument: [given |-> FALSE], or [given |-> TRUE,
\* providers |-> the set of providers it holds a key for]
executeAgentNode(n, st, keys, e, world) ==
    LET data == n.data
        originalInstructions == IF RawText(data.instructions) = ""
                                THEN Literal("Process the input")
                                ELSE data.instructions
        instructions == substituteVariables(originalInstructions, st.variables)
        mcpTools == ResolvedTools(data)
        resolved == IF data.mcpServerIds # <<>>
                    THEN <<[target |-> "resolver", ids |-> data.mcpServerIds]>>
                    ELSE <<>>
        mockOutput == MockOutput(e.MOCK_AGENT_RESPONSE, n.id, data.nodeName)
        messages == IF data.includeChatHistory /\ st.chatHistory # <<>>
                    THEN st.chatHistory \o <<Message("user", instructions)>>
                    ELSE <<Message("user", instructions)>>
        live == Dispatch(ProviderOf(data.model), keys.providers, mcpTools, messages, world)
    IN  IF ~keys.given
        THEN AgentCatch(n, st.variables, e,
                        Err(<<"API key", "s are required for server-side execution">>),
                        resolved)
        ELSE IF MockActive(e) /\ mockOutput.t # "undefined"
        THEN [pc |-> "returned",
              result |-> AgentResult(mockOutput, <<>>, data.includeChatHistory,
                                     RawText(data.instructions), ToText(mockOutput)),
              calls |-> resolved]
        ELSE IF live.kind = "throw"
        THEN AgentCatch(n, st.variables, e, live.error, resolved \o live.calls)
        ELSE [pc |-> "returned",
              result |-> AgentResult(ShapeOutput(data.outputFormat, live.responseText),
                                     live.toolCalls, data.includeChatHistory,
                                     RawText(data.instructions), live.responseText),
              calls |-> resolved \o live.calls]

------------------------------------------------------------------------------
(* HTTP executor, agent.ts *)

\* A text with placeholders is the sequence of its pieces: runs of plain
\* characters and tokens, a token being the characters {{name}}
Chars(s) == [k |-> "chars", s |-> s]
Token(name) == [k |-> "token", s |-> name]

\* the characters substituteVariables writes for a value; the string
\* "{{input}}" is itself a token
ValueText(v) == IF v = Str("{{input}}") THEN <<Token("input")>> ELSE <<Chars(ToText(v))>>

\* the value's characters hold a double quote, which ends a JSON string literal
\* they are written into: a serialized object or array, or a text with quotes
HoldsQuote(v) == v.t \in {"object", "array"} \/ v = Str("say \"hi\"")

\* substituteVariables on a text: every token of a known variable is replaced,
\* in one pass, by the characters of its value
RECURSIVE substituteText(_, _)
substituteText(text, stateVariables) ==
    IF text = <<>> THEN <<>>
    ELSE LET piece == Head(text)
         IN  (IF piece.k = "token" /\ piece.s \in DOMAIN stateVariables
              THEN ValueText(stateVariables[piece.s])
              ELSE <<piece>>) \o substituteText(Tail(text), stateVariables)

\* JSON structures whose strings and keys are texts
JText(text) == [t |-> "jstring", text |-> text]
JNumber(n) == [t |-> "jnumber", n |-> n]
JList(items) == [t |-> "jarray", items |-> items]
JObject(entries) == [t |-> "jobject", entries |-> entries]
Entry(key, value) == [key |-> key, value |-> value]

\* result[key] = value
Put(entries, key, value) ==
    IF \E i \in DOMAIN entries : entries[i].key = key
    THEN [i \in DOMAIN entries |->
             IF entries[i].key = key THEN Entry(key, value) ELSE entries[i]]
    ELSE Append(entries, Entry(key, value))

RECURSIVE PutAll(_, _)
PutAll(entries, into) ==
    IF entries = <<>> THEN into
    ELSE PutAll(Tail(entries), Put(into, Head(entries).key, Head(entries).value))

\* substituteInObject: substituteVariables on every string, array element and
\* object key of a parsed body
RECURSIVE substituteInObject(_, _)
substituteInObject(obj, stateVariables) ==
    CASE obj.t = "jstring" -> JText(substituteText(obj.text, stateVariables))
      [] obj.t = "jarray" ->
           JList([i \in DOMAIN obj.items |-> substituteInObject(obj.items[i], stateVariables)])
      [] obj.t = "jobject" ->
           JObject(PutAll([i \in DOMAIN obj.entries |->
                              Entry(substituteText(obj.entries[i].key, stateVariables),
                                    substituteInObject(obj.entries[i].value, stateVariables))],
                          <<>>))
      [] OTHER -> obj

\* some string or key of the structure has a token whose value holds a quote
RECURSIVE QuoteInserted(_, _)
QuoteInserted(obj, stateVariables) ==
    LET inText(text) == \E i \in DOMAIN text :
                            /\ text[i].k = "token"
                            /\ text[i].s \in DOMAIN stateVariables
                            /\ HoldsQuote(stateVariables[text[i].s])
    IN  CASE obj.t = "jstring" -> inText(obj.text)
          [] obj.t = "jarray" ->
               \E i \in DOMAIN obj.items : QuoteInserted(obj.items[i], stateVariables)
          [] obj.t = "jobject" ->
               \E i \in DOMAIN obj.entries :
                   \/ inText(obj.entries[i].key)
                   \/ QuoteInserted(obj.entries[i].value, stateVariables)
          [] OTHER -> FALSE

\* httpBody: none, a text that is not JSON, or the text of a JSON structure
NoBody == [kind |-> "none"]
RawBody(text) == [kind |-> "raw", text |-> text]
JsonBody(tree) == [kind |-> "json", tree |-> tree]
\* a body that was JSON before the values were written into it and is not after
BrokenJson(tree) == [kind |-> "broken", tree |-> tree]

\* JSON.parse(substituteVariables(httpBody, state)) for a JSON httpBody: the
\* values are written into the text unescaped, so the text no longer parses
\* when one of them holds a quote; else it parses to the structure with the
\* values in place
ParseSubstituted(tree, stateVariables) ==
    IF QuoteInserted(tree, stateVariables)
    THEN BrokenJson(substituteInObject(tree, stateVariables))
    ELSE JsonBody(substituteInObject(tree, stateVariables))

\* the request body, lines 869-897
buildBody(method, httpBody, stateVariables) ==
    IF method \notin {"POST", "PUT", "PATCH"} \/ httpBody.kind = "none" THEN NoBody
    ELSE IF httpBody.kind = "raw"
    THEN RawBody(substituteText(httpBody.text, stateVariables))
    ELSE LET parsed == ParseSubstituted(httpBody.tree, stateVariables)
         IN  IF parsed.kind = "broken" THEN parsed
             ELSE JsonBody(substituteInObject(parsed.tree, stateVariables))

\* response.json().catch(() => response.text()): json() reads the body to its
\* end, so the text() of the recovery finds the body used and rejects
BodyUnusable == Err(<<"Body is unusable">>)

\* response is what fetch does: [kind |-> "ok", ok, status, statusText, body]
\* or [kind |-> "throw", error]
executeHTTPNode(nodeData, stateVariables, response) ==
    LET url == substituteVariables(nodeData.httpUrl, stateVariables)
        method == IF nodeData.httpMethod = "" THEN "GET" ELSE nodeData.httpMethod
        body == buildBody(method, nodeData.httpBody, stateVariables)
        request == <<[target |-> "http", method |-> method, url |-> url, body |-> body,
                      threw |-> response.kind = "throw", response |-> response]>>
    IN  IF response.kind = "throw"
        THEN [pc |-> "thrown",
              result |-> [error |-> <<"HTTP request failed:">> \o MessageOf(response.error)],
              calls |-> request]
        ELSE IF ~IsJson(response.body)
        THEN [pc |-> "thrown",
              result |-> [error |-> <<"HTTP request failed:">> \o MessageOf(BodyUnusable)],
              calls |-> request]
        ELSE IF ~response.ok
        THEN [pc |-> "thrown",
              result |-> [error |-> <<"HTTP request failed:", "HTTP", response.status,
                                      response.statusText>>],
              calls |-> request]
        ELSE [pc |-> "returned",
              result |-> [status |-> response.status, statusText |-> response.statusText,
                          data |-> JsonParse(response.body), url |-> url, method |-> method],
              calls |-> request]

------------------------------------------------------------------------------
(* Inputs of the model *)

RunInputs == {Str("NVDA stock price"),
              Obj([ticker |-> Str("NVDA"), url |-> Str("https://site.test/page")])}

MockTexts == {"unset", "plain mock",
              "{\"nodeA\":\"fixed output\"}",
              "{\"Summarizer\":\"by name\",\"default\":\"by default\"}",
              "{\"nodeA\":null,\"default\":\"by default\"}",
              "{\"other\":\"x\"}"}

\* every setting of the two policy switches, and every mock configuration
\* under each setting of DEMO_MODE
Environments ==
    { e \in [USE_FALLBACK_DATA : {"unset", "true"}, DEMO_MODE : {"unset", "false"},
             MOCK_AGENT_RESPONSE : MockTexts] :
        e.USE_FALLBACK_DATA = "unset" \/ e.MOCK_AGENT_RESPONSE = "unset" }

NoNode == [type |-> "none"]
NoKeys == [given |-> FALSE]
Keys(providers) == [given |-> TRUE, providers |-> providers]
AllKeys == Keys({"anthropic", "openai", "groq", "gemini", "aimlapi", "firecrawl"})
NoResult == [none |-> TRUE]

AgentData(nodeName, instructions, includeChatHistory, outputFormat, model, mcpTools, mcpServerIds) ==
    [nodeName |-> nodeName, instructions |-> instructions,
     includeChatHistory |-> includeChatHistory, outputFormat |-> outputFormat,
     model |-> model, mcpTools |-> mcpTools, mcpServerIds |-> mcpServerIds]

Identities == {<<"nodeA", "Summarizer">>, <<"nodeB", "">>}
Models == {<<>>, <<"anthropic", "claude">>, <<"gpt-4o">>, <<"groq", "openai", "gpt-oss-120b">>,
           <<"gemini", "gemini-1.5-flash">>, <<"aimlapi", "llama-3.1-70b">>,
           <<"mistral", "large">>}
ToolModels == {<<"anthropic", "claude">>, <<"gpt-4o">>, <<"groq", "openai", "gpt-oss-120b">>}
ToolSetups == {<<<<DeepWikiServer>>, <<>>>>, <<<<>>, <<"deepwiki", "missing">>>>}

AgentNodes ==
    { [type |-> "agent", id |-> who[1],
       data |-> AgentData(who[2], instructions, include, "text", model, <<>>, <<>>)] :
        who \in Identities, instructions \in {NoTemplate, Placeholder("lastOutput")},
        include \in BOOLEAN, model \in {<<"gpt-4o">>} }
    \cup
    { [type |-> "agent", id |-> "nodeA",
       data |-> AgentData("Summarizer", Placeholder("lastOutput"), TRUE, "text", model,
                          <<>>, <<>>)] :
        model \in Models }
    \cup
    { [type |-> "agent", id |-> "nodeA",
       data |-> AgentData("Summarizer", Placeholder("lastOutput"), TRUE, "JSON", model,
                          <<>>, <<>>)] :
        model \in {<<"gpt-4o">>, <<"gemini", "gemini-1.5-flash">>} }
    \cup
    { [type |-> "agent", id |-> "nodeA",
       data |-> AgentData("Summarizer", Placeholder("lastOutput"), FALSE, "text", model,
                          tools[1], tools[2])] :
        model \in ToolModels, tools \in ToolSetups }
    \cup
    { [type |-> "agent", id |-> "nodeA",
       data |-> AgentData("Summarizer", Placeholder("lastOutput"), TRUE, "text",
                          <<"groq", "openai", "gpt-oss-120b">>, <<DeepWikiServer>>, <<>>)] }

ToolRequest(id, name, arguments) == [id |-> id, name |-> name, arguments |-> arguments]
ToolResultBlock(id, is_error, content) ==
    [tool_use_id |-> id, is_error |-> is_error, content |-> content]

Worlds ==
    { [first |-> Reply("Plain answer", <<>>, <<>>), posts |-> <<>>,
       second |-> Reply("", <<>>, <<>>)],
      [first |-> Reply("{\"score\":1}", <<>>, <<>>), posts |-> <<>>,
       second |-> Reply("", <<>>, <<>>)],
      [first |-> Throws(Err(<<"429", "Too Many Requests">>)), posts |-> <<>>,
       second |-> Reply("", <<>>, <<>>)],
      [first |-> Throws(Err(<<"fetch failed">>)), posts |-> <<>>,
       second |-> Reply("", <<>>, <<>>)],
      [first |-> Reply("Calling tools",
                       <<ToolRequest("call_1", "DeepWiki", "{\"score\":1}"),
                         ToolRequest("call_2", "Other", "{\"score\":1}")>>,
                       <<ToolResultBlock("call_1", FALSE, Str("tool text"))>>),
       posts |-> <<[kind |-> "ok", status |-> "200",
                    body |-> Obj([result |-> Obj([score |-> Num(1)])])],
                   [kind |-> "network"]>>,
       second |-> Reply("Final answer", <<>>, <<>>)],
      [first |-> Reply("Calling tools",
                       <<ToolRequest("call_1", "DeepWiki", "{oops")>>, <<>>),
       posts |-> <<[kind |-> "notjson"]>>,
       second |-> Throws(Err(<<"fetch failed">>))],
      [first |-> Reply("Calling tools",
                       <<ToolRequest("call_1", "DeepWiki", "{\"score\":1}"),
                         ToolRequest("call_2", "DeepWiki", "{\"score\":1}")>>,
                       <<ToolResultBlock("call_2", FALSE, Str("tool text"))>>),
       posts |-> <<[kind |-> "network"], [kind |-> "network"]>>,
       second |-> Reply("Final answer", <<>>, <<>>)],
      [first |-> Reply("Calling tools",
                       <<ToolRequest("call_1", "DeepWiki", "{oops"),
                         ToolRequest("call_2", "DeepWiki", "{\"score\":1}")>>, <<>>),
       posts |-> <<[kind |-> "network"],
                   [kind |-> "ok", status |-> "200",
                    body |-> Obj([result |-> Obj([score |-> Num(1)])])]>>,
       second |-> Reply("Final answer", <<>>, <<>>)] }

KeySets == {NoKeys, Keys({"openai"}), AllKeys}

MCPData(mcpServers, mcpServerId, mcpAction, outputField, customOutputPath, url, searchQuery) ==
    [mcpServers |-> mcpServers, mcpServerId |-> mcpServerId, mcpAction |-> mcpAction,
     outputField |-> outputField, customOutputPath |-> customOutputPath,
     url |-> url, searchQuery |-> searchQuery]

\* <<inline list, server identifier>>
FirecrawlSetups == {<<<<FirecrawlServer>>, "none">>,
                    <<<<DeepWikiServer, FirecrawlServer>>, "none">>,
                    <<<<>>, "firecrawl">>}
OtherSetups == {<<<<>>, "none">>, <<<<>>, "missing">>,
                <<<<CustomServer, DeepWikiServer>>, "none">>,
                <<<<FirecrawlServer>>, "missing">>,
                <<<<CustomServer>>, "deepwiki">>}

\* <<outputField, customOutputPath>>
OutputSelections == {<<"unset", <<>>>>, <<"urls", <<>>>>,
                     <<"custom", <<Part("web", 0), Part("url", -1)>>>>}

MCPNodes ==
    { [type |-> "mcp", id |-> "nodeM",
       data |-> MCPData(setup[1], setup[2], action, "unset", <<>>, NoTemplate,
                        NoTemplate)] :
        setup \in FirecrawlSetups,
        action \in {"unset", "search", "map", "crawl", "bogus"} }
    \cup
    { [type |-> "mcp", id |-> "nodeM",
       data |-> MCPData(<<FirecrawlServer>>, "none", action, out[1], out[2],
                        Placeholder("lastOutput"), Literal("amazon mouse"))] :
        action \in {"unset", "search"}, out \in OutputSelections }
    \cup
    { [type |-> "mcp", id |-> "nodeM",
       data |-> MCPData(setup[1], setup[2], "search", "unset", <<>>, NoTemplate,
                        NoTemplate)] :
        setup \in OtherSetups }

BackendOutcomes ==
    { [kind |-> "ok",
       data |-> Obj([results |-> Arr(<<Obj([url |-> Str("https://site.test/page")])>>),
                     markdown |-> Str("# Page")])],
      Throws(Err(<<"Request failed with status code 402">>)),
      Throws(NonError) }

HTTPNodes ==
    { [type |-> "http", id |-> "nodeH",
       data |-> [httpUrl |-> url, httpMethod |-> "", httpBody |-> NoBody]] :
        url \in {Literal("https://api.test/items"), Placeholder("lastOutput")} }
    \cup
    { [type |-> "http", id |-> "nodeH",
       data |-> [httpUrl |-> Literal("https://api.test/items"), httpMethod |-> "POST",
                 httpBody |-> JsonBody(JObject(<<Entry(<<Chars("q")>>,
                                                       JText(<<Token("lastOutput")>>))>>))]] }

HTTPResponses ==
    { [kind |-> "ok", ok |-> TRUE, status |-> "200", statusText |-> "OK",
       body |-> "{\"score\":1}"],
      [kind |-> "ok", ok |-> TRUE, status |-> "200", statusText |-> "OK",
       body |-> "plain body"],
      [kind |-> "ok", ok |-> FALSE, status |-> "404", statusText |-> "Not Found",
       body |-> "{\"error\":\"upstream 500\"}"],
      [kind |-> "ok", ok |-> FALSE, status |-> "500", statusText |-> "Internal Server Error",
       body |-> "plain body"],
      Throws(Err(<<"fetch failed">>)) }

------------------------------------------------------------------------------
(* The run: one executor per step, the caller merging in between *)

\* no tool loop in progress, no helper applied
NoLoop == [phase |-> "off"]
NoExtraction == [phase |-> "off"]

\* the run before its first step
RunStart ==
    /\ \E input \in RunInputs : variables = [input |-> input, lastOutput |-> input]
    /\ chatHistory = <<>>
    /\ pc = "idle"
    /\ node = NoNode
    /\ apiKeys = NoKeys
    /\ result = NoResult
    /\ calls = <<>>
    /\ pre = [variables |-> variables, chatHistory |-> chatHistory]
    /\ steps = 0

Init ==
    /\ env \in Environments
    /\ RunStart
    /\ loop = NoLoop
    /\ fx = NoExtraction

Begin(n, keys) ==
    /\ pc = "idle"
    /\ steps < MaxSteps
    /\ node' = n
    /\ apiKeys' = keys
    /\ pre' = [variables |-> variables, chatHistory |-> chatHistory]
    /\ steps' = steps + 1
    /\ UNCHANGED <<env, loop, fx>>

ExecuteAgent ==
    \E n \in AgentNodes, keys \in KeySets, world \in Worlds :
        LET st == [variables |-> variables, chatHistory |-> chatHistory]
            out == executeAgentNode(n, st, keys, env, world)
        IN  /\ Begin(n, keys)
            /\ n.data.includeChatHistory => Len(chatHistory) + 2 <= MaxHistory
            /\ pc' = out.pc
            /\ result' = out.result
            /\ calls' = out.calls
            /\ variables' = AgentStateEffect(st, out.result).variables
            /\ chatHistory' = AgentStateEffect(st, out.result).chatHistory

ExecuteMCP ==
    \E n \in MCPNodes, keys \in {Keys({}), Keys({"firecrawl"})},
       backend \in BackendOutcomes :
        LET out == executeMCPNode(n.data, variables, env, keys.providers, backend)
        IN  /\ Begin(n, keys)
            /\ pc' = out.pc
            /\ result' = out.result
            /\ calls' = out.calls
            /\ variables' = out.variables
            /\ UNCHANGED chatHistory

ExecuteHTTP ==
    \E n \in HTTPNodes, response \in HTTPResponses :
        LET out == executeHTTPNode(n.data, variables, response)
        IN  /\ Begin(n, NoKeys)
            /\ pc' = out.pc
            /\ result' = out.result
            /\ calls' = out.calls
            /\ UNCHANGED <<variables, chatHistory>>

Merge ==
    /\ pc = "returned"
    /\ variables' = MergeVariables(variables, result)
    /\ chatHistory' = ApplyChatHistoryUpdates(chatHistory, result)
    /\ pc' = "idle"
    /\ node' = NoNode
    /\ apiKeys' = NoKeys
    /\ result' = NoResult
    /\ calls' = <<>>
    /\ pre' = [variables |-> variables', chatHistory |-> chatHistory']
    /\ UNCHANGED <<env, steps, loop, fx>>

Next == ExecuteAgent \/ ExecuteMCP \/ ExecuteHTTP \/ Merge

Spec == Init /\ [][Next]_vars

------------------------------------------------------------------------------
(* The Provider B tool loop, call by call: the first completion, the tool   *)
(* callbacks that Promise.all runs concurrently, the second completion      *)

LoopTools == <<DeepWikiServer>>
LoopMessages == <<Message("user", "Process the input")>>

\* message.tool_calls of the first completion
LoopRequests ==
    { <<>>,
      <<ToolRequest("call_1", "DeepWiki", "{\"score\":1}"),
        ToolRequest("call_2", "DeepWiki", "{\"score\":1}")>>,
      <<ToolRequest("call_1", "DeepWiki", "{\"score\":1}"),
        ToolRequest("call_2", "Other", "{\"score\":1}"),
        ToolRequest("call_3", "DeepWiki", "{\"score\":1}")>>,
      <<ToolRequest("call_1", "DeepWiki", "{oops"),
        ToolRequest("call_2", "DeepWiki", "{\"score\":1}")>> }

\* what a tool server does with a POST
ToolReplies ==
    { [kind |-> "ok", status |-> "200", body |-> Obj([result |-> Obj([score |-> Num(1)])])],
      [kind |-> "ok", status |-> "401", body |-> Obj([message |-> Str("Unauthorized")])],
      [kind |-> "network"],
      [kind |-> "notjson"] }

\* Date.now() read once per request while message.tool_calls.map runs its
\* callbacks back to back: the clock never goes back, and may not move at all
DateNowReadings(n) ==
    { readings \in [1..n -> 0..MaxClockAdvance] :
        \A k \in 1..n : k > 1 => readings[k - 1] <= readings[k] }

\* no reply yet
NoReply == [kind |-> "none"]

\* response.usage: absent, or a record of token counts
NoUsage == [given |-> FALSE, fields |-> <<>>]
Usage(fields) == [given |-> TRUE, fields |-> fields]
Usages ==
    { NoUsage,
      Usage([prompt_tokens |-> 10]),
      Usage([prompt_tokens |-> 5]),
      Usage([prompt_tokens |-> 10, completion_tokens |-> 2, total_tokens |-> 12]),
      Usage([input_tokens |-> 7, output_tokens |-> 3, total_tokens |-> 10]) }

\* the fields the second pass adds up
SummedFields == {"prompt_tokens", "completion_tokens", "total_tokens"}

\* usage.f || 0, finalResponse.usage?.f || 0
UsageField(usage, f) == IF f \in DOMAIN usage.fields THEN usage.fields[f] ELSE 0

\* response.usage || {}
FirstUsage(usage) == Usage(usage.fields)

\* mutant: the usage of the first pass is kept as it is
SumUsageFirstPassOnly(usage, finalUsage) ==
    Usage([f \in DOMAIN usage.fields \cup SummedFields |-> UsageField(usage, f)])

\* { ...usage, prompt_tokens: .., completion_tokens: .., total_tokens: .. }
SumUsage(usage, finalUsage) ==
    Usage([f \in DOMAIN usage.fields \cup SummedFields |->
              IF f \in SummedFields
              THEN UsageField(usage, f) + UsageField(finalUsage, f)
              ELSE usage.fields[f]])

\* a callback that has not returned yet
Pending == [tool_call_id |-> "", role |-> "pending", content |-> ""]

\* Promise.all resolves once no callback is outstanding
AllSettled(l) == l.inflight = {}

\* mutant: the values in the order the callbacks settled
PromiseAllInSettlingOrder(settled, order) == [k \in DOMAIN order |-> settled[order[k]]]

\* Promise.all yields the callbacks' values by position in the input array,
\* not in the order they settled
PromiseAll(settled, order) == settled

LoopStart ==
    [phase |-> "start", message |-> Message("assistant", ""), requested |-> <<>>,
     usage |-> NoUsage, settled |-> <<>>, inflight |-> {}, order |-> <<>>,
     posts |-> <<>>, transcript |-> <<>>, responseText |-> "", toolCalls |-> <<>>,
     error |-> NonError, passes |-> <<>>, replies |-> <<>>]

\* client.chat.completions.create with tools, then message.tool_calls.map:
\* every callback runs up to its first await, so a call with no server or
\* with unparsable arguments has its error message at once and the others
\* have their POST in flight
FirstCompletion ==
    /\ loop.phase = "start"
    /\ \E requested \in LoopRequests, usage \in Usages, threw \in BOOLEAN :
        LET posted == { i \in DOMAIN requested : ToolPosted(requested[i], LoopTools) }
            all == [i \in DOMAIN requested |-> i]
        IN  \E readings \in DateNowReadings(Cardinality(posted)) :
              loop' =
                IF threw
                THEN [loop EXCEPT !.phase = "failed", !.error = Err(<<"fetch failed">>)]
                ELSE IF requested = <<>>
                THEN [loop EXCEPT !.phase = "done", !.usage = FirstUsage(usage),
                                  !.passes = <<usage>>, !.responseText = "Plain answer"]
                ELSE [loop EXCEPT
                        !.phase = "tools",
                        !.message = [role |-> "assistant", content |-> "",
                                     tool_calls |-> requested],
                        !.requested = requested,
                        !.usage = FirstUsage(usage),
                        !.passes = <<usage>>,
                        !.settled = [i \in DOMAIN requested |->
                                        IF i \in posted THEN Pending
                                        ELSE ToolMessage(requested[i], LoopTools,
                                                         [kind |-> "network"])],
                        !.inflight = posted,
                        !.replies = [i \in DOMAIN requested |-> NoReply],
                        !.order = SelectSeq(all, LAMBDA i : i \notin posted),
                        !.posts = [k \in DOMAIN SelectSeq(all, LAMBDA i : i \in posted) |->
                                     ToolPost(requested[SelectSeq(all, LAMBDA i : i \in posted)[k]],
                                              LoopTools, [kind |-> "ok"])
                                     @@ [rpcId |-> readings[k]]]]
    /\ UNCHANGED <<env, variables, chatHistory, pc, node, apiKeys, result, calls, pre, steps, fx>>

\* the POST of one outstanding callback is answered, or fails
ToolSettles ==
    /\ loop.phase = "tools"
    /\ \E i \in loop.inflight, post \in ToolReplies :
          loop' = [loop EXCEPT
                     !.settled[i] = ToolMessage(loop.requested[i], LoopTools, post),
                     !.replies[i] = post,
                     !.inflight = @ \ {i},
                     !.order = Append(@, i)]
    /\ UNCHANGED <<env, variables, chatHistory, pc, node, apiKeys, result, calls, pre, steps, fx>>

\* the second client.chat.completions.create, the usage sum and the tool-call
\* records (lines 289-312)
SecondCompletion ==
    /\ loop.phase = "tools"
    /\ AllSettled(loop)
    /\ \E usage \in Usages, threw \in BOOLEAN :
          LET toolResults == PromiseAll(loop.settled, loop.order)
              transcript == LoopMessages \o <<loop.message>> \o toolResults
              requested == loop.requested
          IN  loop' =
                IF threw
                THEN [loop EXCEPT !.phase = "failed", !.transcript = transcript,
                                  !.error = Err(<<"fetch failed">>)]
                ELSE IF \E i \in DOMAIN requested : ~IsJson(requested[i].arguments)
                THEN [loop EXCEPT !.phase = "failed", !.transcript = transcript,
                                  !.usage = SumUsage(loop.usage, usage),
                                  !.passes = Append(@, usage),
                                  !.error = Err(<<"Unexpected token">>)]
                ELSE [loop EXCEPT
                        !.phase = "done", !.transcript = transcript,
                        !.usage = SumUsage(loop.usage, usage),
                        !.passes = Append(@, usage),
                        !.responseText = "Final answer",
                        !.toolCalls = [i \in DOMAIN requested |->
                                          [id |-> requested[i].id,
                                           name |-> requested[i].name,
                                           arguments |-> JsonParse(requested[i].arguments),
                                           output |-> JsonParse(toolResults[i].content)]]]
    /\ UNCHANGED <<env, variables, chatHistory, pc, node, apiKeys, result, calls, pre, steps, fx>>

ToolLoopInit ==
    /\ env = [USE_FALLBACK_DATA |-> "unset", DEMO_MODE |-> "unset",
              MOCK_AGENT_RESPONSE |-> "unset"]
    /\ RunStart
    /\ loop = LoopStart
    /\ fx = NoExtraction

ToolLoopNext == FirstCompletion \/ ToolSettles \/ SecondCompletion

ToolLoopSpec == ToolLoopInit /\ [][ToolLoopNext]_vars

------------------------------------------------------------------------------
(* extractField applied to one response: the arguments, then the value *)

ExtractData ==
    { Obj([results |-> Arr(<<Obj([url |-> Str("a")]), Obj([url |-> Str("b")])>>),
           urls |-> Arr(<<Str("c")>>)]),
      Obj([results |-> Arr(<<Obj([url |-> Str("a")]), Obj([title |-> Str("t")])>>)]),
      Obj([results |-> Arr(<<>>), links |-> Arr(<<Str("d")>>)]),
      Obj([results |-> Str("none"), urls |-> Arr(<<Str("c")>>),
           links |-> Arr(<<Str("d")>>)]),
      Obj([urls |-> Null, links |-> Arr(<<Str("d")>>)]),
      Obj([markdown |-> Str("# Page"), title |-> Str("")]),
      Obj([title |-> Num(0), urls |-> Str("c")]),
      Obj([a |-> Obj([b |-> Arr(<<Obj([c |-> Num(1)]), Obj([c |-> Num(2)])>>)])]),
      Obj([a |-> Obj([b |-> Arr(<<Obj([c |-> Num(1)])>>)])]),
      Obj([a |-> Obj([b |-> Arr(<<Null, Null>>)])]),
      Obj([a |-> Obj([b |-> Null])]),
      Obj([a |-> Obj([c |-> Num(1)])]),
      Obj([a |-> Null]),
      Obj([b |-> Arr(<<Str("x"), Null>>)]),
      Arr(<<Str("a")>>),
      Str("text"),
      Null,
      Undefined }

\* <<field, customPath>>
ExtractRequests ==
    { <<field, <<>>>> : field \in {"full", "urls", "markdown", "title", "custom"} }
    \cup
    { <<"custom", path>> :
        path \in { <<Part("a", -1), Part("b", 1), Part("c", -1)>>,
                   <<Part("a", -1), Part("b", -1)>>,
                   <<Part("a", -1), Part("c", -1)>>,
                   <<Part("b", 1)>>,
                   <<Part("results", 0), Part("url", -1)>> } }

ExtractInit ==
    /\ env = [USE_FALLBACK_DATA |-> "unset", DEMO_MODE |-> "unset",
              MOCK_AGENT_RESPONSE |-> "unset"]
    /\ RunStart
    /\ loop = NoLoop
    /\ \E data \in ExtractData, request \in ExtractRequests :
          fx = [phase |-> "args", data |-> data, field |-> request[1],
                customPath |-> request[2], out |-> Undefined]

\* extractField(data, field, customPath) returns, or throws (out is TypeError)
ApplyExtractField ==
    /\ fx.phase = "args"
    /\ fx' = [fx EXCEPT !.phase = "done",
                        !.out = extractField(fx.data, fx.field, fx.customPath)]
    /\ UNCHANGED <<env, variables, chatHistory, pc, node, apiKeys, result, calls, pre, steps, loop>>

ExtractNext == ApplyExtractField

ExtractSpec == ExtractInit /\ [][ExtractNext]_vars

------------------------------------------------------------------------------
(* The request body of an HTTP step: the arguments, then the body sent *)

\* state.variables: lastOutput a plain text, a text that reads as a
\* placeholder, a text with quotes, an object
BodyStates ==
    { [input |-> Str("NVDA"), lastOutput |-> lastOutput] :
        lastOutput \in {Str("NVDA stock price"), Str("{{input}}"), Str("say \"hi\""),
                        Obj([score |-> Num(1)])} }

BodyTemplates ==
    { NoBody,
      RawBody(<<Chars("q="), Token("lastOutput")>>),
      JsonBody(JObject(<<Entry(<<Chars("q")>>, JText(<<Token("lastOutput")>>))>>)),
      JsonBody(JObject(<<Entry(<<Chars("a")>>,
                               JObject(<<Entry(<<Chars("b")>>,
                                               JList(<<JText(<<Token("input")>>),
                                                       JObject(<<Entry(<<Token("input")>>,
                                                                       JText(<<Chars("v")>>))>>),
                                                       JNumber(1)>>))>>))>>)),
      JsonBody(JObject(<<Entry(<<Token("input")>>, JNumber(1)),
                         Entry(<<Chars("NVDA")>>, JNumber(2))>>)) }

BodyInit ==
    /\ env = [USE_FALLBACK_DATA |-> "unset", DEMO_MODE |-> "unset",
              MOCK_AGENT_RESPONSE |-> "unset"]
    /\ RunStart
    /\ loop = NoLoop
    /\ \E method \in {"GET", "POST", "PUT", "PATCH"}, httpBody \in BodyTemplates,
          stateVariables \in BodyStates :
          fx = [phase |-> "args", method |-> method, httpBody |-> httpBody,
                stateVariables |-> stateVariables, out |-> NoBody]

BuildBody ==
    /\ fx.phase = "args"
    /\ fx' = [fx EXCEPT !.phase = "done",
                        !.out = buildBody(fx.method, fx.httpBody, fx.stateVariables)]
    /\ UNCHANGED <<env, variables, chatHistory, pc, node, apiKeys, result, calls, pre, steps, loop>>

BodyNext == BuildBody

BodySpec == BodyInit /\ [][BodyNext]_vars

------------------------------------------------------------------------------
(* Properties *)

FirecrawlCalls == { i \in DOMAIN calls : calls[i].target = "firecrawl" }
FallbackMarked == "_fallback" \in DOMAIN result

\* C1: when an agent step or a web-research remote-tool step has returned, the
\* lastOutput the state holds once the caller has merged the returned variable
\* updates is the output the step surfaced: the agent's lastOutput update is
\* its __agentValue, and the remote-tool step's `output` is state.variables.lastOutput.
C1_LastOutputIsSurfacedOutput ==
    pc = "returned" =>
        /\ node.type = "agent" =>
              /\ result.__variableUpdates.lastOutput = result.__agentValue
              /\ MergeVariables(variables, result).lastOutput = result.__agentValue
        /\ (node.type = "mcp" /\ "output" \in DOMAIN result) =>
              MergeVariables(variables, result).lastOutput = result.output

C1_Witness ==
    /\ pc = "returned"
    /\ node.type = "agent"
    /\ node.data.outputFormat = "JSON"
    /\ result.__agentValue = Obj([score |-> Num(1)])
    /\ pre.variables.lastOutput # result.__agentValue

\* C2: on every path of executeAgentNode (mock, live, fallback, thrown error)
\* state.variables and state.chatHistory are as they were when the step began;
\* the chat turns and the new lastOutput are only in the returned updates.
C2_AgentLeavesStateUnchanged ==
    (pc # "idle" /\ node.type = "agent") =>
        /\ variables = pre.variables
        /\ chatHistory = pre.chatHistory

C2_Witness ==
    /\ pc = "returned"
    /\ node.type = "agent"
    /\ Len(result.__chatHistoryUpdates) = 2
    /\ result.__variableUpdates.lastOutput # variables.lastOutput

\* C3: no executor writes into state.variables during its own execution:
\* until the caller merges, state.variables is what it was when the step began.
C3_NoExecutorWritesVariables ==
    pc # "idle" => variables = pre.variables

\* the Firecrawl backend was called with this action and threw
BackendThrew(action) ==
    \E i \in FirecrawlCalls : calls[i].action = action /\ calls[i].threw

NonEmptyData(data) ==
    /\ data.t = "object"
    /\ Get(data, "web").t = "array"
    /\ Len(Get(data, "web").a) > 0

\* C4: a remote-tool step with action "search" whose backend throws returns,
\* with fallback enabled, a result with _fallback true and a non-empty
\* results[0].data; with fallback disabled it throws an error that describes
\* the same failure.
C4_SearchFailure ==
    (pc # "idle" /\ node.type = "mcp" /\ BackendThrew("search")) =>
        IF UseFallback(env)
        THEN /\ pc = "returned"
             /\ FallbackMarked /\ result._fallback = TRUE
             /\ NonEmptyData(result.results[1].data)
        ELSE /\ pc = "thrown"
             /\ \E i \in FirecrawlCalls :
                    result.error = <<"Firecrawl", "search", "failed:">> \o calls[i].failure

C4_Witness ==
    /\ pc = "returned"
    /\ node.type = "mcp"
    /\ BackendThrew("search")
    /\ FallbackMarked
    /\ Len(Get(result.results[1].data, "web").a) = 3

\* C5 as stated: for every web-research action (scrape, search, map, crawl), an
\* action that throws while the fallback policy is enabled makes the step
\* return a fallback-marked envelope instead of failing.
C5_EveryActionFallsBack ==
    (pc # "idle" /\ node.type = "mcp" /\ UseFallback(env)
        /\ \E a \in FirecrawlActions : BackendThrew(a)) =>
        (pc = "returned" /\ FallbackMarked)

\* C5 amended: with the fallback policy enabled, a throwing search action makes
\* the step return the synthetic search results in a fallback-marked envelope;
\* a throwing scrape, map or crawl action makes the step throw "Firecrawl
\* <action> failed" and leaves no envelope.
C5_OnlySearchFallsBack ==
    (pc # "idle" /\ node.type = "mcp" /\ UseFallback(env)) =>
        /\ BackendThrew("search") =>
              /\ pc = "returned"
              /\ FallbackMarked
              /\ result.results[1].success = FALSE
              /\ result.results[1].data =
                    generateFallbackSearchResults(result.toolCalls[1].arguments.query)
        /\ \A a \in FirecrawlActions \ {"search"} :
              BackendThrew(a) =>
                  /\ pc = "thrown"
                  /\ Includes(result.error, <<"Firecrawl", a, "failed:">>)

C5_Witness ==
    /\ pc = "thrown"
    /\ node.type = "mcp"
    /\ UseFallback(env)
    /\ BackendThrew("crawl")

FallbackDisabledByDemoMode == env.DEMO_MODE = "false"

\* C6 as stated: whenever DEMO_MODE is 'false' no executor substitutes
\* synthetic data, whatever USE_FALLBACK_DATA is.
C6_DemoModeFalseDisablesEntirely ==
    FallbackDisabledByDemoMode => ~FallbackMarked

\* the failures the fallback policy is consulted for
AgentFailed == node.type = "agent" /\ (pc = "thrown" \/ FallbackMarked)
SearchFailed == node.type = "mcp" /\ BackendThrew("search")

\* C6 amended: synthetic data is never substituted when DEMO_MODE is 'false'
\* and USE_FALLBACK_DATA is not 'true'; in every other setting, the one with
\* neither switch set and the one with USE_FALLBACK_DATA 'true' and DEMO_MODE
\* 'false' included, a failing agent step and a failing search step return
\* fallback data.
C6_FallbackUnlessDisabledAndNotForced ==
    LET disabled == env.DEMO_MODE = "false" /\ env.USE_FALLBACK_DATA # "true"
    IN  /\ disabled => ~FallbackMarked
        /\ (pc # "idle" /\ ~disabled /\ (AgentFailed \/ SearchFailed)) =>
              (pc = "returned" /\ FallbackMarked)
        /\ (pc # "idle" /\ disabled /\ (AgentFailed \/ SearchFailed)) => pc = "thrown"

C6_Witness ==
    /\ env.DEMO_MODE = "false"
    /\ env.USE_FALLBACK_DATA = "true"
    /\ node.type = "agent"
    /\ pc = "returned"
    /\ FallbackMarked

RequestedProvider == ProviderOf(node.data.model)

\* the agent step has no provider keys object, or no key for its provider
ConfigurationError ==
    /\ pc # "idle"
    /\ node.type = "agent"
    /\ ~MockActive(env)
    /\ (~apiKeys.given \/ RequestedProvider \notin apiKeys.providers)

\* C7: a configuration error in an agent step is always surfaced as a thrown
\* error; the step never returns a result then, whatever the fallback policy.
C7_ConfigurationErrorSurfaced ==
    ConfigurationError => pc = "thrown"

\* C8: when the agent step requests a provider for which no key is available,
\* the message of the error that leaves executeAgentNode holds the provider's name.
C8_ErrorNamesProvider ==
    (ConfigurationError /\ apiKeys.given /\ pc = "thrown") =>
        Includes(result.error, <<RequestedProvider>>)

\* the mock entry of a node: under the node id, else the node name, else
\* 'default'; a JSON null counts as no entry
HasMockEntry(config, key) ==
    key # "" /\ key \in DOMAIN config.o /\ config.o[key] # Null

MockEntry(config, id, name) ==
    IF HasMockEntry(config, id) THEN config.o[id]
    ELSE IF HasMockEntry(config, name) THEN config.o[name]
    ELSE config.o["default"]

\* C9: when a mock configuration is present, provider keys are supplied and
\* the configuration holds an entry for the node (by id, else by name, else
\* 'default'), the step returns that entry as its value and as lastOutput with
\* no tool calls, and issues no provider or tool-server call.
C9_MockShortCircuit ==
    LET config == JsonParse(env.MOCK_AGENT_RESPONSE)
    IN  (/\ pc # "idle" /\ node.type = "agent" /\ apiKeys.given
         /\ MockActive(env) /\ IsJson(env.MOCK_AGENT_RESPONSE) /\ config.t = "object"
         /\ \E key \in {node.id, node.data.nodeName, "default"} : HasMockEntry(config, key))
        => /\ pc = "returned"
           /\ result.__agentValue = MockEntry(config, node.id, node.data.nodeName)
           /\ result.__variableUpdates.lastOutput =
                 MockEntry(config, node.id, node.data.nodeName)
           /\ result.__agentToolCalls = <<>>
           /\ \A i \in DOMAIN calls : calls[i].target \notin {"provider", "tool"}

C9_Witness ==
    /\ pc = "returned"
    /\ node.type = "agent"
    /\ node.id = "nodeA"
    /\ env.MOCK_AGENT_RESPONSE = "{\"Summarizer\":\"by name\",\"default\":\"by default\"}"
    /\ result.__agentValue = Str("by name")
    /\ calls = <<>>

\* C10: a remote-tool step that ends up with no tool server (no inline list
\* and no identifier that resolves) returns an object with an error field,
\* does not throw, calls no backend and leaves state.variables unchanged.
C10_NoServerConfigured ==
    (/\ pc # "idle" /\ node.type = "mcp"
     /\ node.data.mcpServers = <<>>
     /\ (node.data.mcpServerId = "none" \/ resolveMCPServer(node.data.mcpServerId) = Absent))
    => /\ pc = "returned"
       /\ "error" \in DOMAIN result
       /\ calls = <<>>
       /\ variables = pre.variables

C10_Witness ==
    /\ pc = "returned"
    /\ node.type = "mcp"
    /\ node.data.mcpServers = <<>>
    /\ node.data.mcpServerId = "missing"
    /\ "error" \in DOMAIN result

\* the tool-role messages of the second completion call's transcript
ToolTurns == SelectSeq(loop.transcript, LAMBDA m : m.role = "tool")

\* C11: in the Provider B tool loop the second completion call is issued only
\* when every requested tool call has completed or failed, and its transcript
\* holds exactly one tool-role message per requested call, carrying that
\* call's id, in the order the model requested them, whatever order the
\* callbacks settled in.
C11_SecondPassAfterAllTools ==
    loop.transcript # <<>> =>
        /\ loop.inflight = {}
        /\ Len(loop.order) = Len(loop.requested)
        /\ Len(ToolTurns) = Len(loop.requested)
        /\ \A i \in DOMAIN loop.requested :
              /\ ToolTurns[i].tool_call_id = loop.requested[i].id
              /\ loop.transcript[Len(LoopMessages) + 1 + i] = ToolTurns[i]
              /\ ToolTurns[i] = loop.settled[i]

C11_Witness ==
    /\ loop.phase = "done"
    /\ loop.order = <<2, 3, 1>>
    /\ Len(ToolTurns) = 3

\* the provider calls of the current step, and the tool calls the model
\* requested in the first of them (read off the second call's transcript)
ProviderCalls == SelectSeq(calls, LAMBDA c : c.target = "provider")
RequestedToolCalls ==
    SelectSeq(ProviderCalls[2].messages, LAMBDA m : "tool_calls" \in DOMAIN m)[1].tool_calls

\* C12: in a Provider B agent step whose two completion calls both succeed, a
\* failing tool call (no server for the name, unparsable arguments, network
\* error, non-JSON reply) stays in its own record: the step returns the live
\* answer with one tool-call record per requested call.
C12_ToolFailureContained ==
    (/\ pc # "idle" /\ node.type = "agent"
     /\ Len(ProviderCalls) = 2
     /\ \A i \in 1..2 : ~ProviderCalls[i].threw)
    => /\ pc = "returned"
       /\ ~FallbackMarked
       /\ Len(result.__agentToolCalls) = Len(RequestedToolCalls)

\* the fields of the normalized usage record
UsageFields == SummedFields \cup {"input_tokens", "output_tokens"}

\* both passes of the tool loop have reported their usage
TwoPasses == loop.phase \in {"done", "failed"} /\ Len(loop.passes) = 2

LiveAnswer ==
    /\ pc # "idle" /\ node.type = "agent"
    /\ ProviderCalls # <<>>
    /\ \A i \in DOMAIN ProviderCalls : ~ProviderCalls[i].threw

\* C14: a step that declares JSON output and gets a response text that is not
\* valid JSON does not fail and does not fall back: it returns the raw text
\* as its value and as lastOutput; a valid JSON text is returned parsed.
C14_UnparsableJsonKeepsRawText ==
    (LiveAnswer /\ node.data.outputFormat = "JSON" /\ node.data.includeChatHistory) =>
        /\ pc = "returned"
        /\ ~FallbackMarked
        /\ LET responseText == result.__chatHistoryUpdates[2].content
           IN  /\ result.__agentValue =
                     IF IsJson(responseText) THEN JsonParse(responseText)
                     ELSE Str(responseText)
               /\ result.__variableUpdates.lastOutput = result.__agentValue

C14_Witness ==
    /\ LiveAnswer
    /\ pc = "returned"
    /\ node.data.outputFormat = "JSON"
    /\ ~FallbackMarked
    /\ result.__agentValue = Str("Plain answer")

\* an exception was raised inside the try block of executeAgentNode: no keys
\* object, no key for the provider, a provider call that threw, or the
\* tool-call records failing to parse a call's arguments
ExceptionRaised ==
    /\ pc # "idle" /\ node.type = "agent"
    /\ \/ ~apiKeys.given
       \/ /\ ~MockActive(env)
          /\ \/ RequestedProvider \notin apiKeys.providers
             \/ \E i \in DOMAIN ProviderCalls : ProviderCalls[i].threw
             \/ /\ Len(ProviderCalls) = 2
                /\ \E i \in DOMAIN RequestedToolCalls :
                      ~IsJson(RequestedToolCalls[i].arguments)

\* C15: with the fallback policy enabled every exception raised while an agent
\* step executes makes executeAgentNode return a result tagged _fallback true,
\* with no tool calls and a lastOutput update equal to the canned value it
\* returns; with the policy disabled every such exception leaves as a thrown
\* error. Nothing else makes the step throw or fall back.
C15_ExceptionFallsBackOrThrows ==
    /\ ExceptionRaised =>
          IF UseFallback(env)
          THEN /\ pc = "returned"
               /\ FallbackMarked /\ result._fallback = TRUE
               /\ result.__agentToolCalls = <<>>
               /\ result.__variableUpdates.lastOutput = result.__agentValue
               /\ result.__agentValue =
                     Str(FallbackResponse(node.id, node.data, pre.variables))
          ELSE pc = "thrown"
    /\ AgentFailed => ExceptionRaised

C15_Witness ==
    /\ ExceptionRaised
    /\ apiKeys.given
    /\ \E i \in DOMAIN ProviderCalls : ProviderCalls[i].threw
    /\ pc = "returned"
    /\ FallbackMarked

\* obj indexed along a path, a link that is absent (missing key, null or
\* undefined value, index out of range) giving undefined
RECURSIVE IndexAlong(_, _)
IndexAlong(v, parts) ==
    IF parts = <<>> THEN v
    ELSE IF v.t \in {"undefined", "null"} THEN Undefined
    ELSE LET part == Head(parts)
             named == Get(v, part.name)
             next == IF part.index < 0 THEN named
                     ELSE IF named.t \in {"undefined", "null"} THEN Undefined
                     ELSE At(named, part.index)
         IN  IndexAlong(next, Tail(parts))

\* C16: for an object obj, extractField(obj, "custom", path) is the value
\* found by indexing obj along the path, and undefined, never an exception,
\* when a link of the path is absent.
C16_CustomPathNeverThrows ==
    (fx.phase = "done" /\ fx.field = "custom" /\ fx.customPath # <<>>
        /\ fx.data.t = "object") =>
        /\ fx.out # TypeError
        /\ fx.out = IndexAlong(fx.data, fx.customPath)

\* the url field of every element of a list
UrlFields(list) == Arr([i \in DOMAIN list.a |-> Get(list.a[i], "url")])

\* C17: extractField(data, "urls") is the list of the url fields of
\* data.results when that is an array, else data.urls when that is an array,
\* else data.links when that is an array, else data itself (data an object,
\* array or primitive whose properties can be read); and
\* extractField(data, "full") is data, for every data.
C17_UrlsAndFull ==
    fx.phase = "done" =>
        /\ (fx.field = "urls" /\ fx.data.t \notin {"undefined", "null"}) =>
              fx.out = IF Get(fx.data, "results").t = "array"
                       THEN UrlFields(Get(fx.data, "results"))
                       ELSE IF Get(fx.data, "urls").t = "array" THEN Get(fx.data, "urls")
                       ELSE IF Get(fx.data, "links").t = "array" THEN Get(fx.data, "links")
                       ELSE fx.data
        /\ fx.field = "full" => fx.out = fx.data

C17_Witness ==
    /\ fx.phase = "done"
    /\ fx.field = "urls"
    /\ Get(fx.data, "urls") = Arr(<<Str("c")>>)
    /\ fx.out = Arr(<<Str("a"), Str("b")>>)

\* C18: an HTTP step returns a result only for a 2xx response; on any other
\* response it throws an error that carries the response status and the
\* response body.
C18_Non2xxThrowsWithStatusAndBody ==
    (pc # "idle" /\ node.type = "http" /\ calls[1].response.kind = "ok") =>
        LET response == calls[1].response
        IN  /\ pc = "returned" => response.ok
            /\ ~response.ok =>
                  /\ pc = "thrown"
                  /\ Includes(result.error, <<response.status>>)
                  /\ Includes(result.error, <<response.body>>)

\* C19: for a POST, PUT or PATCH step the body sent for a JSON template is the
\* template's structure with every placeholder, in strings, array elements
\* and object keys at every depth, replaced once by its state value; a body
\* that is not JSON is sent as the substituted text.
C19_BodyPlaceholdersReplacedOnce ==
    (fx.phase = "done" /\ fx.method \in {"POST", "PUT", "PATCH"}) =>
        /\ fx.httpBody.kind = "json" =>
              fx.out = JsonBody(substituteInObject(fx.httpBody.tree, fx.stateVariables))
        /\ fx.httpBody.kind = "raw" =>
              fx.out = RawBody(substituteText(fx.httpBody.text, fx.stateVariables))

\* C20: when the mock configuration is an object with no entry under the node
\* id, the node name or 'default', the agent step does not short-circuit: it
\* goes on to the provider dispatch (a provider call, or the missing-key error
\* of the dispatch).
C20_NoMockEntryGoesLive ==
    LET config == JsonParse(env.MOCK_AGENT_RESPONSE)
    IN  (/\ pc # "idle" /\ node.type = "agent" /\ apiKeys.given
         /\ MockActive(env) /\ IsJson(env.MOCK_AGENT_RESPONSE) /\ config.t = "object"
         /\ \A key \in {node.id, node.data.nodeName, "default"} : key \notin DOMAIN config.o)
        => \/ ProviderCalls # <<>>
           \/ RequestedProvider \notin apiKeys.providers

\* the names of the servers of a list
ServerNames(servers) == { servers[i].name : i \in DOMAIN servers }

\* the step ended on the no-server error
NoServerFailure == pc = "returned" /\ result = NoServerResult

\* C21 (as stated): a remote-tool node that carries a server identifier takes
\* its targets from the resolver alone: when the identifier resolves to
\* nothing the step ends on the no-server error, inline list or not.
C21_IdentifierAloneDecides ==
    (pc # "idle" /\ node.type = "mcp" /\ node.data.mcpServerId # "none") =>
        LET resolved == resolveMCPServer(node.data.mcpServerId)
        IN  /\ resolved = Absent => NoServerFailure
            /\ (resolved # Absent /\ pc = "returned") => result.mcpServers = <<resolved.name>>

\* C21 (amended): an identifier that resolves replaces the inline list (the
\* resolved server is the only target); an identifier that resolves to nothing
\* leaves the inline list in place, so the step fails with the no-server error
\* only when that list is empty too; without an identifier the inline list
\* is used.
C21_InlineListSurvivesUnresolvedIdentifier ==
    (pc # "idle" /\ node.type = "mcp") =>
        LET resolved == resolveMCPServer(node.data.mcpServerId)
            hasId == node.data.mcpServerId # "none"
            inline == node.data.mcpServers
        IN  /\ (hasId /\ resolved # Absent) =>
                  /\ ~NoServerFailure
                  /\ pc = "returned" => result.mcpServers = <<resolved.name>>
            /\ (~hasId \/ resolved = Absent) =>
                  /\ NoServerFailure <=> inline = <<>>
                  /\ (pc = "returned" /\ inline # <<>>) =>
                        \A i \in DOMAIN result.results :
                            result.results[i].server \in ServerNames(inline)

C21_Witness ==
    /\ pc = "returned"
    /\ node.type = "mcp"
    /\ node.data.mcpServerId = "missing"
    /\ node.data.mcpServers = <<FirecrawlServer>>
    /\ result.mcpServers = <<"Firecrawl">>

\* C22: a remote-tool step with several target servers dispatches every
\* server once, in list order, and the returned envelope holds one entry per
\* server, in that order; the entry of an unrecognized generic server has
\* success false and an error naming the server and its endpoint, and the
\* servers after it are dispatched all the same.
C22_OneEntryPerServerInOrder ==
    (pc = "returned" /\ node.type = "mcp" /\ ~NoServerFailure) =>
        LET servers == TargetServers(node.data)
        IN  /\ Len(result.results) = Len(servers)
            /\ result.mcpServers = [i \in DOMAIN servers |-> servers[i].name]
            /\ \A i \in DOMAIN servers :
                  /\ result.results[i].server = servers[i].name
                  /\ servers[i] = CustomServer =>
                        /\ ~result.results[i].success
                        /\ Includes(result.results[i].error, <<servers[i].name>>)
                        /\ Includes(result.results[i].error, <<servers[i].url>>)

\* a tool message content or tool-call output that is the error entry
\* { error: ... } of the callback's catch
ErrorEntry(value) == value.t = "object" /\ "error" \in DOMAIN value.o

\* C23: a tool server reply with a non-2xx status, and a reply that is not
\* JSON, are each turned into a per-call error entry: the tool message of
\* that call, and its tool-call record, hold an error and never the reply as
\* a tool output.
C23_Non2xxReplyIsErrorEntry ==
    \A i \in DOMAIN loop.replies :
        LET reply == loop.replies[i]
        IN  (\/ reply.kind = "notjson"
             \/ reply.kind = "ok" /\ reply.status # "200")
            => /\ ErrorEntry(JsonParse(loop.settled[i].content))
               /\ loop.phase = "done" => ErrorEntry(loop.toolCalls[i].output)

\* C24: the JSON-RPC ids of the tool requests of one agent step are pairwise
\* distinct, also when the requests are sent at the same clock value.
C24_RequestIdsDistinct ==
    \A k, l \in DOMAIN loop.posts : k # l => loop.posts[k].rpcId # loop.posts[l].rpcId

\* the turns a provider call hands over; the Gemini branch sends them as one
\* prompt in which the assistant turns carry an 'Assistant: ' prefix
TurnsHanded(call) ==
    IF call.api = "generateContent"
    THEN [i \in DOMAIN call.messages |->
             Message(IF call.messages[i].prefix = "" THEN "user" ELSE "assistant",
                     call.messages[i].content)]
    ELSE call.messages

\* the instruction of the step after substitution
SubstitutedInstruction ==
    substituteVariables(IF RawText(node.data.instructions) = ""
                        THEN Literal("Process the input")
                        ELSE node.data.instructions,
                        pre.variables)

\* C25: in every provider branch, a step that opts into chat history while
\* state.chatHistory is non-empty hands the provider the whole history followed
\* by the substituted instruction as a new user turn; any other step hands it
\* the single user turn holding the substituted instruction.
C25_ProviderGetsHistoryThenInstruction ==
    (pc # "idle" /\ node.type = "agent" /\ ProviderCalls # <<>>) =>
        TurnsHanded(ProviderCalls[1]) =
            IF node.data.includeChatHistory /\ pre.chatHistory # <<>>
            THEN pre.chatHistory \o <<Message("user", SubstitutedInstruction)>>
            ELSE <<Message("user", SubstitutedInstruction)>>

\* C26: for a field name f that is not one of the predefined ones,
\* extractField(data, f) is data[f] whenever data is an object that has the
\* key f, whatever the value under it (0, false, '', null included), and is
\* the whole data only when the key is absent.
C26_OtherFieldIndexesByKey ==
    (fx.phase = "done" /\ fx.field = "title" /\ fx.data.t = "object") =>
        fx.out = IF "title" \in DOMAIN fx.data.o THEN fx.data.o.title ELSE fx.data

\* C27: an HTTP response whose body is not JSON does not fail the step: with
\* a 2xx status the step returns a result whose data is the raw body text.
C27_NonJsonBodyReturnedAsText ==
    (/\ pc # "idle" /\ node.type = "http" /\ calls[1].response.kind = "ok"
     /\ calls[1].response.ok /\ ~IsJson(calls[1].response.body))
    => /\ pc = "returned"
       /\ result.data = Str(calls[1].response.body)

\* the result blocks of a provider response that answer the invocation id
ResultBlocksFor(response, id) ==
    SelectSeq(response.results, LAMBDA block : block.tool_use_id = id)

\* C28: a Provider A step with tool servers builds one tool-call record per
\* tool-invocation block, and the output a record holds is the result of the
\* invocation whose id it carries: the content of the result block answering
\* that id (as an error payload when the block is an error), and no output
\* when no result block answers it.
C28_RecordHoldsOwnResult ==
    (/\ pc = "returned" /\ node.type = "agent" /\ LiveAnswer
     /\ ProviderCalls[1].api = "beta.messages")
    => LET response == ProviderCalls[1].response
           records == result.__agentToolCalls
       IN  /\ Len(records) = Len(response.tool_calls)
           /\ \A i \in DOMAIN records :
                 LET own == ResultBlocksFor(response, records[i].tool_use_id)
                 IN  /\ records[i].tool_use_id = response.tool_calls[i].id
                     /\ own = <<>> => "output" \notin DOMAIN records[i]
                     /\ own # <<>> =>
                           /\ "output" \in DOMAIN records[i]
                           /\ records[i].output =
                                 IF own[1].is_error THEN Obj([error |-> own[1].content])
                                 ELSE own[1].content

\* C29: the user turn an agent step proposes for the chat history is the user
\* turn it sent to the provider in that step, the instruction after variable
\* substitution.
C29_ProposedUserTurnIsSentUserTurn ==
    (/\ pc = "returned" /\ node.type = "agent" /\ LiveAnswer
     /\ result.__chatHistoryUpdates # <<>>)
    => LET sent == TurnsHanded(ProviderCalls[1])
       IN  /\ result.__chatHistoryUpdates[1] = sent[Len(sent)]
           /\ result.__chatHistoryUpdates[1].content = SubstitutedInstruction

\* content is a text form of value: the string itself, or a JSON text of it
TextFormOf(content, value) ==
    \/ value.t = "string" /\ content = value.s
    \/ IsJson(content) /\ JsonParse(content) = value

\* the updates an agent step returned are none when it did not opt in, else a
\* user turn then an assistant turn holding the returned value as text
ChatUpdatesWellFormed ==
    (pc = "returned" /\ node.type = "agent") =>
        LET updates == result.__chatHistoryUpdates
        IN  /\ ~node.data.includeChatHistory => updates = <<>>
            /\ node.data.includeChatHistory =>
                  /\ Len(updates) = 2
                  /\ updates[1].role = "user"
                  /\ updates[2].role = "assistant"
                  /\ TextFormOf(updates[2].content, result.__agentValue)

\* one step of the run leaves chatHistory alone or appends two records to it
ChatHistoryGrowsByPairs ==
    \/ chatHistory' = chatHistory
    \/ /\ Len(chatHistory') = Len(chatHistory) + 2
       /\ SubSeq(chatHistory', 1, Len(chatHistory)) = chatHistory

\* C30: on every return path of executeAgentNode (mock, live, fallback) the
\* proposed chat updates are empty when the step did not opt into chat
\* history, and otherwise one user turn followed by one assistant turn whose
\* content is the text form of the returned value; so along a run chatHistory
\* only grows, by 0 or 2 records per step, its earlier records unchanged.
C30_ChatUpdatesAreNoneOrOnePair ==
    /\ []ChatUpdatesWellFormed
    /\ [][ChatHistoryGrowsByPairs]_vars

C30_Witness ==
    /\ pc = "idle"
    /\ steps = 2
    /\ Len(chatHistory) = 4
    /\ pre.chatHistory = chatHistory
    /\ chatHistory[4] = Message("assistant", "{\"score\":1}")
    /\ variables.lastOutput = Obj([score |-> Num(1)])

====
